---------------------------- MODULE Spec2Model ----------------------------
(***************************************************************************)
(* A model of src/agent/io/sourcemapper.ts: the construction of the        *)
(* source-map index (create / processSourcemap under p-limit), the         *)
(* resolution of an input path to an index entry (getMappingInfo,          *)
(* hasMappingInfo) and the translation of a source position (mappingInfo,  *)
(* mapViaSourceMapSupport).                                                *)
(*                                                                         *)
(* Paths and source references are strings, as in the program: the path    *)
(* functions (POSIX flavour of Node's path module) and the string methods  *)
(* are computed character by character.  The file system, the source-map   *)
(* parser and the source-map-support registry are the environment: what    *)
(* they answer is part of the input.                                       *)
(***************************************************************************)
EXTENDS Integers, Sequences, FiniteSets, TLC

(***************************************************************************)
(* Bounds of the model.                                                    *)
(***************************************************************************)
\* longest batch of freely combined mapping files
MaxBatch == 2
\* how far a long batch exceeds the concurrency cap
MaxExtra == 1
\* longest list of generated positions the parser answers with
MaxPos == 2
\* largest generated line number (one-based)
MaxLine == 2

(***************************************************************************)
(* Program constants.                                                      *)
(***************************************************************************)
CONCURRENCY == 10
WEBPACK_PREFIX == "webpack://"
MAP_EXT == ".map"

(***************************************************************************)
(* JavaScript values.  null stands outside the numbers the parser uses     *)
(* (lines from 1, columns from 0); undefined is what a missing property    *)
(* or a missing Map key reads as.                                          *)
(***************************************************************************)
Null == 0 - 1
Undefined == 0 - 2

\* ToNumber as applied by the arithmetic of `mappedPos.line - 1`
ToNumber(v) == IF v = Null THEN 0 ELSE v

\* `v || 0` on a number-or-undefined
OrZero(v) == IF v = Undefined \/ v = Null \/ v = 0 THEN 0 ELSE v

(***************************************************************************)
(* String methods.                                                         *)
(***************************************************************************)
CharAt(s, i) == SubSeq(s, i, i)

StartsWith(s, p) == Len(s) >= Len(p) /\ SubSeq(s, 1, Len(p)) = p

EndsWith(s, p) == Len(s) >= Len(p) /\ SubSeq(s, Len(s) - Len(p) + 1, Len(s)) = p

\* s.substring(n)
Substring(s, n) == SubSeq(s, n + 1, Len(s))

UpperLetters == "ABCDEFGHIJKLMNOPQRSTUVWXYZ"
LowerLetters == "abcdefghijklmnopqrstuvwxyz"

LowerChar(c) ==
  IF \E i \in 1..Len(UpperLetters) : CharAt(UpperLetters, i) = c
  THEN CharAt(LowerLetters, CHOOSE i \in 1..Len(UpperLetters) : CharAt(UpperLetters, i) = c)
  ELSE c

RECURSIVE LowerFrom(_, _)
LowerFrom(s, i) ==
  IF i > Len(s) THEN "" ELSE LowerChar(CharAt(s, i)) \o LowerFrom(s, i + 1)

\* s.toLowerCase()
ToLowerCase(s) == LowerFrom(s, 1)

RECURSIVE ReplaceFrom(_, _)
ReplaceFrom(s, i) ==
  IF i > Len(s) THEN ""
  ELSE (IF CharAt(s, i) = "\\" THEN "/" ELSE CharAt(s, i)) \o ReplaceFrom(s, i + 1)

\* s.replace(/\\/g, '/')
ReplaceBackslashes(s) == ReplaceFrom(s, 1)

(***************************************************************************)
(* Node's path module, POSIX flavour.                                      *)
(***************************************************************************)
\* the pieces of s between its "/" characters ("" splits into <<"">>)
RECURSIVE SplitFrom(_, _, _, _)
SplitFrom(s, i, cur, acc) ==
  IF i > Len(s) THEN Append(acc, cur)
  ELSE IF CharAt(s, i) = "/" THEN SplitFrom(s, i + 1, "", Append(acc, cur))
  ELSE SplitFrom(s, i + 1, cur \o CharAt(s, i), acc)

Split(s) == SplitFrom(s, 1, "", <<>>)

RECURSIVE JoinSegs(_)
JoinSegs(segs) ==
  IF Len(segs) = 0 THEN ""
  ELSE IF Len(segs) = 1 THEN segs[1]
  ELSE segs[1] \o "/" \o JoinSegs(Tail(segs))

\* normalizeString: drop "" and ".", resolve ".." against the segment before it
RECURSIVE NormalizeSegs(_, _, _)
NormalizeSegs(segs, acc, allowAboveRoot) ==
  IF Len(segs) = 0 THEN acc
  ELSE LET h == Head(segs)
           t == Tail(segs)
       IN IF h = "" \/ h = "." THEN NormalizeSegs(t, acc, allowAboveRoot)
          ELSE IF h = ".."
               THEN IF Len(acc) > 0 /\ acc[Len(acc)] # ".."
                    THEN NormalizeSegs(t, SubSeq(acc, 1, Len(acc) - 1), allowAboveRoot)
                    ELSE IF allowAboveRoot THEN NormalizeSegs(t, Append(acc, ".."), allowAboveRoot)
                    ELSE NormalizeSegs(t, acc, allowAboveRoot)
               ELSE NormalizeSegs(t, Append(acc, h), allowAboveRoot)

IsAbsolute(p) == Len(p) > 0 /\ CharAt(p, 1) = "/"

\* path.normalize
Normalize(p) ==
  IF Len(p) = 0 THEN "."
  ELSE LET abs == IsAbsolute(p)
           trailing == CharAt(p, Len(p)) = "/"
           body == JoinSegs(NormalizeSegs(Split(p), <<>>, ~abs))
       IN IF Len(body) = 0
          THEN (IF abs THEN "/" ELSE IF trailing THEN "./" ELSE ".")
          ELSE (IF abs THEN "/" ELSE "") \o body \o (IF trailing THEN "/" ELSE "")

\* path.join of two arguments
Join(a, b) ==
  IF Len(a) = 0 /\ Len(b) = 0 THEN "."
  ELSE IF Len(a) = 0 THEN Normalize(b)
  ELSE IF Len(b) = 0 THEN Normalize(a)
  ELSE Normalize(a \o "/" \o b)

\* p without its trailing "/" characters (one character is always kept)
RECURSIVE StripTrailingSlashes(_)
StripTrailingSlashes(p) ==
  IF Len(p) > 1 /\ CharAt(p, Len(p)) = "/"
  THEN StripTrailingSlashes(SubSeq(p, 1, Len(p) - 1))
  ELSE p

\* the position of the last "/" of s, 0 when there is none
LastSlash(s) ==
  LET at == {i \in 1..Len(s) : CharAt(s, i) = "/"}
  IN IF at = {} THEN 0 ELSE CHOOSE i \in at : \A j \in at : j <= i

\* path.dirname
Dirname(p) ==
  IF Len(p) = 0 THEN "."
  ELSE LET q == StripTrailingSlashes(p)
           k == LastSlash(q)
       IN IF k = 0 THEN "."
          ELSE IF k = 1 THEN "/"
          ELSE StripTrailingSlashes(SubSeq(q, 1, k - 1))

\* path.basename(p, ext)
Basename(p, ext) ==
  LET q == StripTrailingSlashes(p)
      base == IF q = "/" THEN "" ELSE SubSeq(q, LastSlash(q) + 1, Len(q))
  IN IF base # ext /\ EndsWith(base, ext)
     THEN SubSeq(base, 1, Len(base) - Len(ext))
     ELSE base

\* the process's working directory, against which path.relative resolves
Cwd == "/cwd"

\* path.resolve of one argument
Resolve(p) == IF IsAbsolute(p) THEN Normalize(p) ELSE Normalize(Cwd \o "/" \o p)

\* the segments of an absolute normalized path
AbsSegs(p) == NormalizeSegs(Split(p), <<>>, FALSE)

RECURSIVE CommonPrefixLen(_, _)
CommonPrefixLen(a, b) ==
  IF Len(a) = 0 \/ Len(b) = 0 \/ Head(a) # Head(b) THEN 0
  ELSE 1 + CommonPrefixLen(Tail(a), Tail(b))

\* path.relative
Relative(from, to) ==
  LET f == AbsSegs(Resolve(from))
      t == AbsSegs(Resolve(to))
      n == CommonPrefixLen(f, t)
  IN JoinSegs([i \in 1..(Len(f) - n) |-> ".."] \o SubSeq(t, n + 1, Len(t)))

(***************************************************************************)
(* The mapping files of a batch.  A file is the path handed to create      *)
(* together with what the environment answers for it: whether the read     *)
(* succeeds, fails or never returns, whether the contents parse, and the   *)
(* parsed document's "file" ("" when absent) and "sources".                *)
(***************************************************************************)
MapFile(p, r, ok, file, srcs) ==
  [path |-> p, read |-> r, parses |-> ok, file |-> file, sources |-> srcs]

GoodA == MapFile("out/a.js.map", "ok", TRUE, "a.js", <<"../src/a.ts">>)
GoodB == MapFile("out/./b.js.map", "ok", TRUE, "",
                 <<"WebPack://../src/a.ts", "", "webpack://lib/b.ts">>)
GoodC == MapFile("c.js.map", "ok", TRUE, "c.js", <<"./src/c.ts", "src/c.ts">>)
GoodD == MapFile("lib/out/d.js.map", "ok", TRUE, "d.js", <<"../src/a.ts">>)
BadExt == MapFile("out/a.js", "ok", TRUE, "a.js", <<"../src/a.ts">>)
NoPath == MapFile("", "ok", TRUE, "", <<>>)
Unreadable == MapFile("out/missing.js.map", "error", FALSE, "", <<>>)
Malformed == MapFile("out/bad.js.map", "ok", FALSE, "", <<>>)
NoSources == MapFile("out/e.js.map", "ok", TRUE, "e.js", <<>>)
EmptySources == MapFile("out/f.js.map", "ok", TRUE, "f.js", <<"">>)
Hang == MapFile("out/h.js.map", "hang", FALSE, "", <<>>)

Files == {GoodA, GoodB, GoodC, GoodD, BadExt, NoPath, Unreadable, Malformed,
          NoSources, EmptySources, Hang}

\* the kinds a long batch is filled with
LongKinds == {GoodA, BadExt, Unreadable}

(***************************************************************************)
(* processSourcemap                                                        *)
(***************************************************************************)
\* line 73: the path names a sourcemap file
ValidMapPath(mapPath) == Len(mapPath) > 0 /\ EndsWith(mapPath, MAP_EXT)

\* line 76
NormalizedMapPath(f) == Normalize(f.path)

\* line 115
ParentDir(f) == Dirname(NormalizedMapPath(f))

\* lines 112-116
OutputPath(f) ==
  LET outputBase == IF Len(f.file) > 0 THEN f.file
                    ELSE Basename(NormalizedMapPath(f), ".map")
  IN Normalize(Join(ParentDir(f), outputBase))

\* Array.prototype.sort by length is stable: s goes behind the elements no longer than it
RECURSIVE InsertByLength(_, _)
InsertByLength(sorted, s) ==
  IF Len(sorted) = 0 THEN <<s>>
  ELSE IF Len(Head(sorted)) <= Len(s)
       THEN <<Head(sorted)>> \o InsertByLength(Tail(sorted), s)
       ELSE <<s>> \o sorted

RECURSIVE SortByLength(_)
SortByLength(seq) ==
  IF Len(seq) = 0 THEN <<>>
  ELSE InsertByLength(SortByLength(SubSeq(seq, 1, Len(seq) - 1)), seq[Len(seq)])

Truthy(val) == Len(val) > 0

\* lines 119-121
NonemptySources(f) == SortByLength(SelectSeq(f.sources, Truthy))

\* the prefix test without toLowerCase
StripWebpackCaseSensitive(src) ==
  IF StartsWith(src, WEBPACK_PREFIX)
  THEN Substring(src, Len(WEBPACK_PREFIX))
  ELSE src

\* lines 125-128
StripWebpack(src) ==
  IF StartsWith(ToLowerCase(src), WEBPACK_PREFIX)
  THEN Substring(src, Len(WEBPACK_PREFIX))
  ELSE src

\* lines 123-135
NormalizedSources(f) ==
  LET ne == NonemptySources(f)
  IN [i \in 1..Len(ne) |-> Normalize(Join(ParentDir(f), StripWebpack(ne[i])))]

\* whether the load of f's contents never returns (line 80)
Stuck(f) == ValidMapPath(f.path) /\ f.read = "hang"

\* the four throws of processSourcemap: lines 74, 82, 97, 138
Succeeds(f) ==
  /\ ValidMapPath(f.path)
  /\ f.read = "ok"
  /\ f.parses
  /\ Len(NormalizedSources(f)) > 0

\* lines 141-146: the entry stored under each source of f
Entry(f) ==
  [outputFile |-> OutputPath(f), mapFile |-> NormalizedMapPath(f),
   sources |-> NonemptySources(f)]

\* lines 73-139 for one file: whether the load hangs, whether one of the four throws is
\* taken, and the keys and the entry that lines 140-147 then write to the index. These
\* lines read nothing that another task writes, so what they compute is fixed by the
\* file and by what the environment answers for it.
ProcessSourcemap(f) ==
  [stuck |-> Stuck(f),
   ok |-> Succeeds(f),
   keys |-> IF Succeeds(f)
            THEN [j \in 1..Len(NormalizedSources(f)) |-> Normalize(NormalizedSources(f)[j])]
            ELSE <<>>,
   entry |-> Entry(f)]

\* Map.prototype.set
MapSet(map, key, value) ==
  [k \in DOMAIN map \cup {key} |-> IF k = key THEN value ELSE map[k]]

\* the keys of one file put into a map of their own instead of the shared one
InsertIntoFreshMap(map, keys, value) == [k \in {keys[j] : j \in 1..Len(keys)} |-> value]

\* lines 140-147: infoMap.set for each key in turn
RECURSIVE InsertSources(_, _, _)
InsertSources(map, keys, value) ==
  IF Len(keys) = 0 THEN map
  ELSE InsertSources(MapSet(map, Head(keys), value), Tail(keys), value)

\* one more write for each infoMap.set of lines 140-147
RECURSIVE CountWrites(_, _)
CountWrites(count, keys) ==
  IF Len(keys) = 0 THEN count
  ELSE CountWrites(MapSet(count, Head(keys),
                          IF Head(keys) \in DOMAIN count THEN count[Head(keys)] + 1 ELSE 1),
                   Tail(keys))

EmptyMap == [k \in {} |-> 0]

(***************************************************************************)
(* State.                                                                  *)
(***************************************************************************)
VARIABLES
  batch,     \* sourcemapPaths: the mapping files handed to create
  work,      \* for each task, what processSourcemap computes from its file
  pc,        \* each task: "new", "queued", "running", "ok" or "failed"
  infoMap,   \* mapper.infoMap
  writes,    \* how many times each key of infoMap was set
  result,    \* create: "pending", "returned" or "thrown"
  registry,  \* source-map-support: whether it can be required, and the paths it has maps for
  query      \* the last call of a query method, with its arguments and what it returned

vars == <<batch, work, pc, infoMap, writes, result, registry, query>>

Tasks == DOMAIN batch

NoRegistry == [available |-> FALSE, paths |-> {}]
NoQuery == [op |-> "none"]

\* the free combinations of at most MaxBatch files
ShortBatches == UNION {[1..n -> Files] : n \in 0..MaxBatch}

\* n files: k that hang, put first or last, and n - k of kind f
LongBatch(n, k, f, hangFirst) ==
  [i \in 1..n |-> IF (hangFirst /\ i <= k) \/ (~hangFirst /\ i > n - k) THEN Hang ELSE f]

LongBatches ==
  UNION {{LongBatch(n, k, f, h) : k \in 0..n, f \in LongKinds, h \in BOOLEAN} :
           n \in (CONCURRENCY + 1)..(CONCURRENCY + MaxExtra)}

\* create is called: nothing is submitted to the limiter yet
InitWith(batches, registries) ==
  /\ batch \in batches
  /\ work = [i \in DOMAIN batch |-> ProcessSourcemap(batch[i])]
  /\ pc = [i \in DOMAIN batch |-> "new"]
  /\ infoMap = EmptyMap
  /\ writes = EmptyMap
  /\ result = "pending"
  /\ registry \in registries
  /\ query = NoQuery

Init == InitWith(ShortBatches \cup LongBatches, {NoRegistry})

(***************************************************************************)
(* create and the limiter.  p-limit runs a submitted function at once when *)
(* fewer than `concurrency` are active and queues it otherwise; when an    *)
(* active one settles it takes the head of the queue.                      *)
(***************************************************************************)
\* p-limit's activeCount
ActiveCount(pcs) == Cardinality({i \in DOMAIN pcs : pcs[i] = "running"})

\* processSourcemap called without the limiter
NoLimit(active) == TRUE

\* line 357: pLimit(CONCURRENCY)
HasFreeSlot(active) == active < CONCURRENCY

AllSubmitted == \A i \in Tasks : pc[i] # "new"

\* lines 359-361, one turn of sourcemapPaths.map: limit(() => processSourcemap(...))
Enqueue ==
  /\ \E i \in Tasks :
       /\ pc[i] = "new"
       /\ \A j \in Tasks : j < i => pc[j] # "new"
       /\ pc' = [pc EXCEPT ![i] = IF HasFreeSlot(ActiveCount(pc)) THEN "running" ELSE "queued"]
  /\ UNCHANGED <<batch, work, infoMap, writes, result, registry, query>>

\* a limiter that takes the next task only after a task that succeeded
AfterSettleLeak(pcs, i, outcome) ==
  LET done == [pcs EXCEPT ![i] = outcome]
      queued == {j \in DOMAIN pcs : pcs[j] = "queued"}
  IN IF queued = {} \/ outcome # "ok" THEN done
     ELSE [done EXCEPT ![CHOOSE j \in queued : \A h \in queued : j <= h] = "running"]

\* lines 359-361: the limiter once task i has settled with `outcome`
AfterSettle(pcs, i, outcome) ==
  LET done == [pcs EXCEPT ![i] = outcome]
      queued == {j \in DOMAIN pcs : pcs[j] = "queued"}
  IN IF queued = {} THEN done
     ELSE [done EXCEPT ![CHOOSE j \in queued : \A h \in queued : j <= h] = "running"]

\* lines 67-148: task i runs from its start (or from the answer of its read) to its end
Settle(i) ==
  /\ i \in Tasks
  /\ AllSubmitted
  /\ pc[i] = "running"
  /\ ~work[i].stuck
  /\ IF work[i].ok
     THEN /\ infoMap' = InsertSources(infoMap, work[i].keys, work[i].entry)
          /\ writes' = CountWrites(writes, work[i].keys)
          /\ pc' = AfterSettle(pc, i, "ok")
     ELSE /\ UNCHANGED <<infoMap, writes>>
          /\ pc' = AfterSettle(pc, i, "failed")
  /\ UNCHANGED <<batch, work, result, registry, query>>

\* Promise.allSettled in the place of Promise.all
PromiseAllSettled(pcs) ==
  IF \A i \in DOMAIN pcs : pcs[i] \in {"ok", "failed"} THEN "fulfilled" ELSE "pending"

\* line 363: Promise.all(promises)
PromiseAll(pcs) ==
  IF \E i \in DOMAIN pcs : pcs[i] = "failed" THEN "rejected"
  ELSE IF \A i \in DOMAIN pcs : pcs[i] = "ok" THEN "fulfilled"
  ELSE "pending"

\* lines 362-369: create resumes from its await
CreateResume ==
  /\ AllSubmitted
  /\ result = "pending"
  /\ PromiseAll(pc) # "pending"
  /\ result' = IF PromiseAll(pc) = "rejected" THEN "thrown" ELSE "returned"
  /\ UNCHANGED <<batch, work, pc, infoMap, writes, registry, query>>

Next ==
  \/ Enqueue
  \/ \E i \in Tasks : Settle(i)
  \/ CreateResume

Spec == Init /\ [][Next]_vars

(***************************************************************************)
(* The same program under fair scheduling: a read that is not stuck        *)
(* returns, and a continuation that can run is run.                        *)
(***************************************************************************)
MaxTasks == CONCURRENCY + MaxExtra + MaxBatch

LiveSpec ==
  /\ Spec
  /\ WF_vars(Enqueue)
  /\ WF_vars(CreateResume)
  /\ \A i \in 1..MaxTasks : WF_vars(Settle(i))

(***************************************************************************)
(* The query methods of SourceMapper.                                      *)
(***************************************************************************)
NullEntry == [kind |-> "null"]
UndefinedEntry == [kind |-> "undefined"]

\* Map.prototype.get
MapGet(map, key) == IF key \in DOMAIN map THEN map[key] ELSE UndefinedEntry

\* utils.findScriptsFuzzy: the keys that end with the path, compared over ever longer
\* tails of its components, from the base name on, until at most one key is left
RECURSIVE FuzzyFrom(_, _, _)
FuzzyFrom(components, i, matches) ==
  LET kept == {k \in matches : EndsWith(k, JoinSegs(SubSeq(components, i, Len(components))))}
  IN IF Cardinality(kept) <= 1 \/ i <= 1 THEN kept
     ELSE FuzzyFrom(components, i - 1, kept)

FindScriptsFuzzy(scriptPath, fileList) ==
  LET components == Split(Normalize(scriptPath))
  IN FuzzyFrom(components, Len(components), fileList)

\* several candidates resolved to one of them
GetMappingInfoAnyMatch(map, inputPath) ==
  IF Normalize(inputPath) \in DOMAIN map
  THEN MapGet(map, inputPath)
  ELSE LET matches == FindScriptsFuzzy(inputPath, DOMAIN map)
       IN IF Cardinality(matches) >= 1
          THEN MapGet(map, CHOOSE k \in matches : TRUE)
          ELSE NullEntry

\* lines 176-190
GetMappingInfo(map, inputPath) ==
  IF Normalize(inputPath) \in DOMAIN map
  THEN MapGet(map, inputPath)
  ELSE LET matches == FindScriptsFuzzy(inputPath, DOMAIN map)
       IN IF Cardinality(matches) = 1
          THEN MapGet(map, CHOOSE k \in matches : TRUE)
          ELSE NullEntry

\* property access: a record has no value for a name it does not carry
GetProp(rec, name) == IF name \in DOMAIN rec THEN rec[name] ELSE Undefined

\* the comparison with <= : the last position of the smallest line
ReducerLastOfMin(accumulator, value) ==
  IF value.line <= accumulator.line THEN value ELSE accumulator

\* lines 277-279 and 341-343: the callback of allPos.reduce
Reducer(accumulator, value) == IF value.line < accumulator.line THEN value ELSE accumulator

\* Array.prototype.reduce without an initial value
RECURSIVE ReduceFrom(_, _, _)
ReduceFrom(allPos, i, accumulator) ==
  IF i > Len(allPos) THEN accumulator
  ELSE ReduceFrom(allPos, i + 1, Reducer(accumulator, allPos[i]))

\* lines 275-280 and 339-344
MappedPos(allPos, best) ==
  IF Len(allPos) > 0 THEN ReduceFrom(allPos, 2, allPos[1]) ELSE best

\* lines 240-263: the source position handed to the parser
SourcePos(entry, inputPath, lineNumber, colNumber) ==
  LET relPath == ReplaceBackslashes(Relative(Dirname(entry.mapFile), inputPath))
      hits == {i \in 1..Len(entry.sources) : EndsWith(entry.sources[i], relPath)}
  IN [source |-> IF hits = {} THEN relPath
                 ELSE entry.sources[CHOOSE i \in hits : \A j \in hits : i <= j],
      line |-> lineNumber + 1,
      column |-> colNumber]

\* lines 328-332
InputPosition(inputPath, lineNumber, colNumber) ==
  [source |-> inputPath, line |-> lineNumber + 1, column |-> colNumber]

\* lines 282-292
MappingInfoOutput(entry, mappedPos) ==
  [kind |-> "value",
   file |-> entry.outputFile,
   line |-> ToNumber(mappedPos.line) - 1,
   column |-> OrZero(GetProp(mappedPos, "col"))]

\* lines 346-350
SourceMapSupportOutput(inputPath, mappedPos) ==
  [kind |-> "value",
   file |-> inputPath,
   line |-> ToNumber(mappedPos.line) - 1,
   column |-> mappedPos.column]

NullResult == [kind |-> "null"]
\* rawMap!.map with rawMap null: a TypeError
TypeError == [kind |-> "throw"]
Bool(b) == [kind |-> "boolean", value |-> b]

(***************************************************************************)
(* What the parser answers.  allGeneratedPositionsFor: a list of positions *)
(* (or null); generatedPositionFor: one position, null in both fields when *)
(* it finds none.  generatedPositionFor is asked only when the list is     *)
(* empty.                                                                  *)
(***************************************************************************)
Cols == {Null, 0, 1}
Positions == [line : 1..MaxLine, column : Cols]
PosLists == UNION {[1..n -> Positions] : n \in 0..MaxPos}
NotAsked == [asked |-> FALSE]
NotFound == [line |-> Null, column |-> Null]
BestAnswers == Positions \cup {NotFound}
NoPos == [line |-> Null, column |-> Null, none |-> TRUE]

\* the paths and lines asked for
QueryPaths == {"src/a.ts", "./src/a.ts", "lib/src/a.ts", "a.ts", "b.ts",
               "out//lib/b.ts", "x/../src/c.ts", "zzz.ts"}
QueryLines == {0, 1}

\* a call that did not reach the parser
Plain(op, path, line, col, entry, res) ==
  [op |-> op, path |-> path, line |-> line, column |-> col, entry |-> entry,
   sourcePos |-> NoPos, allPos |-> <<>>, best |-> NotAsked, mappedPos |-> NoPos,
   result |-> res]

\* a call that asked the parser
Mapped(op, path, line, col, entry, sourcePos, allPos, best, res) ==
  [op |-> op, path |-> path, line |-> line, column |-> col, entry |-> entry,
   sourcePos |-> sourcePos, allPos |-> allPos, best |-> best,
   mappedPos |-> MappedPos(allPos, best), result |-> res]

Ready == result = "returned" /\ query = NoQuery

\* lines 205-207
HasMappingInfo(inputPath) ==
  /\ Ready
  /\ LET entry == GetMappingInfo(infoMap, inputPath)
     IN query' = Plain("hasMappingInfo", inputPath, 0, 0, entry, Bool(entry # NullEntry))
  /\ UNCHANGED <<batch, work, pc, infoMap, writes, result, registry>>

\* lines 229-293
MappingInfo(inputPath, lineNumber, colNumber) ==
  /\ Ready
  /\ LET entry == GetMappingInfo(infoMap, Normalize(inputPath))
     IN IF entry = NullEntry
        THEN query' = Plain("mappingInfo", inputPath, lineNumber, colNumber, entry, NullResult)
        ELSE \E allPos \in PosLists :
               \E best \in (IF Len(allPos) > 0 THEN {NotAsked} ELSE BestAnswers) :
                 query' = Mapped("mappingInfo", inputPath, lineNumber, colNumber, entry,
                                 SourcePos(entry, Normalize(inputPath), lineNumber, colNumber),
                                 allPos, best,
                                 MappingInfoOutput(entry, MappedPos(allPos, best)))
  /\ UNCHANGED <<batch, work, pc, infoMap, writes, result, registry>>

\* lines 305-312
CanMapViaSourceMapSupport(inputPath) ==
  /\ Ready
  /\ query' = Plain("canMapViaSourceMapSupport", inputPath, 0, 0, NullEntry,
                    Bool(registry.available /\ inputPath \in registry.paths))
  /\ UNCHANGED <<batch, work, pc, infoMap, writes, result, registry>>

\* lines 321-353
MapViaSourceMapSupport(inputPath, lineNumber, colNumber) ==
  /\ Ready
  /\ IF ~registry.available
     THEN query' = Plain("mapViaSourceMapSupport", inputPath, lineNumber, colNumber,
                         NullEntry, NullResult)
     ELSE IF inputPath \notin registry.paths
     THEN query' = Plain("mapViaSourceMapSupport", inputPath, lineNumber, colNumber,
                         NullEntry, TypeError)
     ELSE \E allPos \in PosLists :
            \E best \in (IF Len(allPos) > 0 THEN {NotAsked} ELSE BestAnswers) :
              query' = Mapped("mapViaSourceMapSupport", inputPath, lineNumber, colNumber,
                              NullEntry, InputPosition(inputPath, lineNumber, colNumber),
                              allPos, best,
                              SourceMapSupportOutput(inputPath, MappedPos(allPos, best)))
  /\ UNCHANGED <<batch, work, pc, infoMap, writes, result, registry>>

\* the batches the query methods are run after
MapBatches == {<<GoodA>>, <<GoodA, GoodD>>, <<GoodB, GoodC>>}

Registries == {NoRegistry,
               [available |-> TRUE, paths |-> {}],
               [available |-> TRUE, paths |-> {"src/a.ts"}]}

MapInit == InitWith(MapBatches, Registries)

MapNext ==
  \/ Enqueue
  \/ \E i \in Tasks : Settle(i)
  \/ CreateResume
  \/ \E p \in QueryPaths : HasMappingInfo(p)
  \/ \E p \in QueryPaths, l \in QueryLines : MappingInfo(p, l, 0)
  \/ \E p \in QueryPaths : CanMapViaSourceMapSupport(p)
  \/ \E p \in QueryPaths, l \in QueryLines : MapViaSourceMapSupport(p, l, 0)

MapSpec == MapInit /\ [][MapNext]_vars

(***************************************************************************)
(* What the claims are stated with.                                        *)
(***************************************************************************)
Settled(i) == pc[i] \in {"ok", "failed"}

\* the key a source reference of mapping file f is to be indexed under: the reference
\* without its webpack:// prefix (in any case), joined to the directory of f, normalized
ExpectedKey(f, src) ==
  LET n == Len("webpack://")
      stripped == IF Len(src) >= n /\ ToLowerCase(SubSeq(src, 1, n)) = "webpack://"
                  THEN SubSeq(src, n + 1, Len(src))
                  ELSE src
  IN Normalize(Join(Dirname(Normalize(f.path)), stripped))

\* the non-empty source references of task i, by position
Refs(i) == {j \in 1..Len(batch[i].sources) : batch[i].sources[j] # ""}

\* the source references of successfully processed files that are indexed under key k
WritersOf(k) ==
  {ij \in UNION {{<<i, j>> : j \in Refs(i)} : i \in Tasks} :
     pc[ij[1]] = "ok" /\ ExpectedKey(batch[ij[1]], batch[ij[1]].sources[ij[2]]) = k}

\* the files that fail in processSourcemap: invalid path, read error, parse error, no sources
FailingFiles == {BadExt, NoPath, Unreadable, Malformed, NoSources, EmptySources}

-----------------------------------------------------------------------------
\* C1: create is all-or-nothing. Whenever a task of the batch has failed (its path is
\* invalid, its read or its parse fails, or it lists no usable source), create does not
\* return a mapper, whatever the other files are and in whatever order the tasks ran;
\* a mapper is returned only when every task of the batch has succeeded.
C1_AllOrNothing ==
  /\ (\E i \in Tasks : pc[i] = "failed") => result # "returned"
  /\ \A i \in Tasks : (Settled(i) /\ batch[i] \in FailingFiles) => pc[i] = "failed"
  /\ result = "returned" => \A i \in Tasks : pc[i] = "ok"

\* a failing file in a batch with a well-formed one that was indexed: create has thrown
C1_Witness ==
  /\ result = "thrown"
  /\ \E i \in Tasks : pc[i] = "failed" /\ batch[i] = EmptySources
  /\ \E i \in Tasks : pc[i] = "ok"

\* C2: at most CONCURRENCY tasks are in flight in every state; a task waits in the queue
\* only while CONCURRENCY tasks are in flight, and a queued task is started only in a
\* step in which a running task settles.
C2_AtMostTenInFlight ==
  /\ [](/\ ActiveCount(pc) <= CONCURRENCY
        /\ (\E i \in Tasks : pc[i] = "queued") => ActiveCount(pc) = CONCURRENCY)
  /\ [][\A i \in Tasks :
          (pc[i] = "queued" /\ pc'[i] = "running")
            => \E j \in Tasks : pc[j] = "running" /\ pc'[j] \in {"ok", "failed"}]_vars

\* a batch longer than the cap: a task beyond the tenth runs, in the slot of a settled one
C2_Witness ==
  /\ Len(batch) > CONCURRENCY
  /\ ActiveCount(pc) = CONCURRENCY
  /\ \E i \in Tasks : i > CONCURRENCY /\ pc[i] = "running"
  /\ \E j \in Tasks : Settled(j)

\* C3, as stated: every key of the index is written exactly once.
C3_InsertOnce == \A k \in DOMAIN writes : writes[k] = 1

\* C3, amended: no key is ever removed, an entry changes only by a write to its key, and
\* the index is written once for each non-empty source reference of each successfully
\* processed mapping file; so a key is written exactly once when one reference of the
\* batch normalizes to it, and once per reference (the later write replacing the entry)
\* when several do.
C3_WrittenOncePerReference ==
  /\ [](/\ DOMAIN writes = DOMAIN infoMap
        /\ \A k \in DOMAIN writes : writes[k] = Cardinality(WritersOf(k)))
  /\ [][\A k \in DOMAIN infoMap :
          /\ k \in DOMAIN infoMap'
          /\ infoMap'[k] # infoMap[k] => writes'[k] > writes[k]]_vars

\* two mapping files list a source that normalizes to the same key: the key was written
\* twice, and a third key once
C3_Witness ==
  /\ result = "returned"
  /\ batch = <<GoodA, GoodB>>
  /\ writes["src/a.ts"] = 2
  /\ writes["out/lib/b.ts"] = 1

\* C4, as stated: after create has returned, every non-empty source of every file of the
\* batch has its key in the index, and the entry under it carries the output path and the
\* map path of that file.
C4_EntryOfItsOwnFile ==
  result = "returned" =>
    \A i \in Tasks : \A j \in Refs(i) :
      LET k == ExpectedKey(batch[i], batch[i].sources[j])
      IN /\ k \in DOMAIN infoMap
         /\ infoMap[k].outputFile = OutputPath(batch[i])
         /\ infoMap[k].mapFile = Normalize(batch[i].path)

\* C4, amended: after create has returned, every non-empty source of every file of the
\* batch has its key in the index, and the entry under it carries the output path and the
\* map path of a file of the batch that lists a source with that key: of that file itself
\* when no other file of the batch lists one.
C4_EntryOfAListingFile ==
  result = "returned" =>
    \A i \in Tasks : \A j \in Refs(i) :
      LET k == ExpectedKey(batch[i], batch[i].sources[j])
      IN /\ k \in DOMAIN infoMap
         /\ \E w \in WritersOf(k) :
              /\ infoMap[k].outputFile = OutputPath(batch[w[1]])
              /\ infoMap[k].mapFile = Normalize(batch[w[1]].path)
         /\ (\A w \in WritersOf(k) : batch[w[1]] = batch[i])
              => /\ infoMap[k].outputFile = OutputPath(batch[i])
                 /\ infoMap[k].mapFile = Normalize(batch[i].path)

\* a returned index with a webpack:// source in mixed case, an empty source and a key
\* that two files list
C4_Witness ==
  /\ result = "returned"
  /\ batch = <<GoodB, GoodA>>
  /\ DOMAIN infoMap = {"src/a.ts", "out/lib/b.ts"}
  /\ infoMap["out/lib/b.ts"].outputFile = "out/b.js"

IsResolve == query.op \in {"hasMappingInfo", "mappingInfo"}

\* C5: for an input path whose normalized form is a key of the index, getMappingInfo
\* returns the entry stored under that key, also when the path as given is not normalized.
C5_ExactMatchFirst ==
  (IsResolve /\ Normalize(query.path) \in DOMAIN infoMap)
    => query.entry = infoMap[Normalize(query.path)]

\* the candidates the fuzzy matcher yields for the path of the query
Candidates == FindScriptsFuzzy(query.path, DOMAIN infoMap)

\* C6: for a path whose normalized form is not a key of the index, an entry is returned
\* only when the fuzzy matcher yields exactly one candidate, and it is that candidate's;
\* with no candidate or several, getMappingInfo returns null, hasMappingInfo false and
\* mappingInfo null.
C6_AmbiguityIsNotFound ==
  (IsResolve /\ Normalize(query.path) \notin DOMAIN infoMap) =>
    IF Cardinality(Candidates) = 1
    THEN /\ \A k \in Candidates : query.entry = infoMap[k]
         /\ query.result \notin {NullResult, Bool(FALSE)}
    ELSE /\ query.entry = NullEntry
         /\ query.op = "hasMappingInfo" => query.result = Bool(FALSE)
         /\ query.op = "mappingInfo" => query.result = NullResult

\* a path that two keys match: not found
C6_Witness ==
  /\ query.op = "mappingInfo"
  /\ Normalize(query.path) \notin DOMAIN infoMap
  /\ Cardinality(Candidates) = 2
  /\ query.result = NullResult

IsMapped == query.op \in {"mappingInfo", "mapViaSourceMapSupport"} /\ query.result.kind = "value"

\* the first position of a non-empty list among those of the smallest line
FirstOfMinLine(allPos) ==
  allPos[CHOOSE i \in 1..Len(allPos) :
           /\ \A j \in 1..Len(allPos) : allPos[i].line <= allPos[j].line
           /\ \A j \in 1..(i - 1) : allPos[j].line > allPos[i].line]

\* C7: when the parser answers with one or more generated positions, mappingInfo and
\* mapViaSourceMapSupport select the first position among those of the smallest line and
\* report that line minus one, and the best-match query is not made; it is made, and its
\* answer selected, only when the list is empty.
C7_FirstOfMinimumLine ==
  IsMapped =>
    IF Len(query.allPos) > 0
    THEN /\ query.mappedPos = FirstOfMinLine(query.allPos)
         /\ query.result.line = FirstOfMinLine(query.allPos).line - 1
         /\ query.best = NotAsked
    ELSE /\ query.best \in BestAnswers
         /\ query.mappedPos = query.best

\* two candidates on the smallest line, after one on a larger line or before it
C7_Witness ==
  /\ IsMapped
  /\ Len(query.allPos) >= 2
  /\ \E i, j \in 1..Len(query.allPos) :
       /\ i < j
       /\ query.allPos[i].line = query.allPos[j].line
       /\ query.allPos[i].column # query.allPos[j].column
       /\ query.mappedPos = query.allPos[i]

\* C8: mapViaSourceMapSupport returns null when source-map-support is not available and
\* when it is available but has no map registered for the path.
C8_UnmappedIsNull ==
  (/\ query.op = "mapViaSourceMapSupport"
   /\ (~registry.available \/ query.path \notin registry.paths))
    => query.result = NullResult

\* C9: mappingInfo returns the entry's output path, the selected position's line minus
\* one and the selected position's column, 0 only when the position has no column.
C9_ColumnOfSelected ==
  (query.op = "mappingInfo" /\ query.result.kind = "value") =>
    /\ query.result.file = query.entry.outputFile
    /\ query.mappedPos.line # Null => query.result.line = query.mappedPos.line - 1
    /\ query.result.column =
         IF query.mappedPos.column = Null THEN 0 ELSE query.mappedPos.column

\* the tasks whose load never returns
StuckTasks == {i \in Tasks : Stuck(batch[i])}

=============================================================================
